---- MODULE Spec2Model ----
(***************************************************************************)
(* Model of foxsi4_science_tools_py/download/sdo_download.py:              *)
(* sdo_download, fido_download and handle_retries, with sunpy's Fido       *)
(* (search, fetch) and os.makedirs as external collaborators whose         *)
(* outcomes are nondeterministic.                                          *)
(***************************************************************************)
EXTENDS Integers, Sequences, FiniteSets, TLC

(* ---------------------------------------------------------------------- *)
(* Bounds of the model and program constants                              *)
(* ---------------------------------------------------------------------- *)

\* longest wave_values list the caller passes
MaxWaves == 2

\* handle_retries(filepaths, tries=5, needed_files=None)
DefaultTries == 5

\* wavelengths the caller draws wave_values from
Wavelengths == {94, 171}

\* two failure records (opaque to this code: file, url, exception)
E1 == <<"file1", "url1", "timeout">>
E2 == <<"file2", "url2", "reset">>

\* failure lists (filepaths.errors) a Fido.fetch result can carry
ErrorLists == { <<>>, <<E1>>, <<E1, E2>> }

\* all sequences over S of length at most n
RECURSIVE SeqsUpTo(_, _)
SeqsUpTo(S, n) ==
    IF n = 0 THEN { <<>> }
    ELSE LET shorter == SeqsUpTo(S, n - 1)
         IN  shorter \cup { Append(s, x) : s \in { t \in shorter : Len(t) = n - 1 }, x \in S }

IsPrefix(s, t) == Len(s) <= Len(t) /\ SubSeq(t, 1, Len(s)) = s

(* ---------------------------------------------------------------------- *)
(* Pure parts of sdo_download                                             *)
(* ---------------------------------------------------------------------- *)

\* wave_dirs = [f"{wv}angstrom" for wv in wave_values]
WaveDir(wv) == ToString(wv) \o "angstrom"

\* one element of zip(instruments, waves, wave_dirs) for an AIA wavelength
AiaChannel(wv) == [inst |-> "AIA", wave |-> <<"Wavelength", wv>>, wd |-> WaveDir(wv)]

\* the element appended to the three lists when get_hmi is true
HmiChannel == [inst |-> "hmi", wave |-> <<"Physobs", "LOS_magnetic_field">>, wd |-> "hmi"]

\* wave_values = [94, 131, 171, 193, 211, 304, 335, 1600, 1700] if wave_values is None
DefaultWaveValues == <<94, 131, 171, 193, 211, 304, 335, 1600, 1700>>

\* variant of Channels: an empty wave_values is taken for a missing one
\* (`wave_values or [...]` in place of `... if wave_values is None`)
Channels_EmptyMeansDefault(wvs, hmi) ==
    LET used == IF wvs = <<>> THEN DefaultWaveValues ELSE wvs
        aia == [i \in 1..Len(used) |-> AiaChannel(used[i])]
    IN  IF hmi THEN Append(aia, HmiChannel) ELSE aia

\* variant of Channels: the HMI entry is put in front of the wavelength entries
Channels_HmiFirst(wvs, hmi) ==
    LET aia == [i \in 1..Len(wvs) |-> AiaChannel(wvs[i])]
    IN  IF hmi THEN <<HmiChannel>> \o aia ELSE aia

\* zip(instruments, waves, wave_dirs) as built by lines 81-89
Channels(wvs, hmi) ==
    LET aia == [i \in 1..Len(wvs) |-> AiaChannel(wvs[i])]
    IN  IF hmi THEN Append(aia, HmiChannel) ELSE aia

\* every directory name a run of the model can ensure
DirNames == { WaveDir(w) : w \in Wavelengths } \cup { "hmi" }

(* ---------------------------------------------------------------------- *)
(* io/load_yaml.py: the configuration file and its loader                 *)
(* ---------------------------------------------------------------------- *)

\* a scalar of a YAML document as written in the file: quoted or plain text
Quoted(t) == [style |-> "quoted", text |-> t]
Plain(t) == [style |-> "plain", text |-> t]

\* plain scalars the YAML resolver reads as an integer, and their values
IntLiterals == { "0", "1", "17" }
IntOf(t) == CASE t = "0" -> 0 [] t = "1" -> 1 [] t = "17" -> 17

\* plain scalars the YAML resolver reads as a timestamp
TimestampLiterals == { "2024-04-17T22:13:00", "2024-04-17T21:57:00", "2024-04-17T22:30:00" }

\* Python values a scalar can be loaded as; values of different types are
\* different values
PyStr(t) == [type |-> "str", str |-> t, int |-> 0]
PyInt(n) == [type |-> "int", str |-> "", int |-> n]
PyDatetime(t) == [type |-> "datetime", str |-> t, int |-> 0]

\* variant of Resolve: every scalar is loaded as the string it was written
\* as (yaml.load with BaseLoader)
Resolve_AllStrings(tok) == PyStr(tok.text)

\* the Python value yaml.safe_load makes of one scalar: a quoted scalar is a
\* str, a plain integer an int, a plain timestamp a datetime, other plain
\* text a str
Resolve(tok) ==
    IF tok.style = "quoted" THEN PyStr(tok.text)
    ELSE IF tok.text \in IntLiterals THEN PyInt(IntOf(tok.text))
    ELSE IF tok.text \in TimestampLiterals THEN PyDatetime(tok.text)
    ELSE PyStr(tok.text)

IsScalar(node) == DOMAIN node = {"style", "text"}

\* yaml.safe_load(file): the nested mapping of a well-formed document, with
\* the keys of the document and every scalar resolved
RECURSIVE SafeLoad(_)
SafeLoad(node) ==
    IF IsScalar(node) THEN Resolve(node)
    ELSE [k \in DOMAIN node |-> SafeLoad(node[k])]

\* a document with the keys the package reads: the launch time of the flight
\* and the flare's time of interest
Document(utc, clock, start, end) ==
    [flight |-> [foxsi4 |-> [launch_time |-> [utc |-> utc, clock |-> clock]]],
     flare |-> [time_of_interest |-> [start |-> [utc |-> start], end |-> [utc |-> end]]]]

\* observational-information/observation-parameters.yaml as the tests of the
\* package expect it
ObsParamsDoc ==
    Document(Quoted("2024-04-17T22:13:00"), Plain("0"),
             Quoted("2024-04-17T21:57:00"), Quoted("2024-04-17T22:30:00"))

\* the well-formed documents a file can hold
Documents ==
    { Document(utc, clock, start, Quoted("2024-04-17T22:30:00")) :
        utc \in { Quoted("2024-04-17T22:13:00"), Plain("2024-04-17T22:13:00") },
        clock \in { Plain("0"), Plain("17"), Quoted("0") },
        start \in { Quoted("2024-04-17T21:57:00"), Plain("flare onset") } }

\* what can be found at a path: no file, a file that cannot be read, a file
\* that is not well-formed YAML, or a well-formed document
FileStates ==
    { [state |-> st, doc |-> <<>>] : st \in {"missing", "unreadable", "malformed"} }
        \cup { [state |-> "wellformed", doc |-> d] : d \in Documents }

\* the exception open() or yaml.safe_load raise for a file, "none" if none
LoadError(file) ==
    CASE file.state = "missing" -> "FileNotFoundError"
      [] file.state = "unreadable" -> "PermissionError"
      [] file.state = "malformed" -> "YAMLError"
      [] OTHER -> "none"

NoMapping == [loaded |-> FALSE]
NoFile == [state |-> "none", doc |-> <<>>]

\* variant of LoadYaml: an empty mapping stands in for a file that cannot be
\* loaded
LoadYaml_DefaultOnError(file) ==
    IF LoadError(file) = "none"
    THEN [exc |-> "none", value |-> SafeLoad(file.doc), opens |-> 1]
    ELSE [exc |-> "none", value |-> [default |-> TRUE], opens |-> 1]

\* load_yaml(filename): open the file once, parse it, return what the parser
\* made; an error of open or of the parser is not caught
LoadYaml(file) ==
    IF LoadError(file) = "none"
    THEN [exc |-> "none", value |-> SafeLoad(file.doc), opens |-> 1]
    ELSE [exc |-> LoadError(file), value |-> NoMapping, opens |-> 1]

\* load_obs_info(): load_yaml on the observation-parameters file
LoadObsInfo(file) == LoadYaml(file)

\* the mapping the package holds when its import succeeded on the file the
\* tests expect
RepoObsInfo == SafeLoad(ObsParamsDoc)

(* ---------------------------------------------------------------------- *)
(* State                                                                  *)
(* ---------------------------------------------------------------------- *)

VARIABLES
    wave_values,   \* argument of sdo_download (a list of wavelengths)
    get_hmi,       \* argument of sdo_download
    channels,      \* zip(instruments, waves, wave_dirs)
    idx,           \* position of the for loop of sdo_download in channels
    pc,            \* position of the run in the code
    dirs,          \* directories that exist under `directory`
    unifresp,      \* result of Fido.search in fido_download
    filepaths,     \* result object of the latest Fido.fetch
    tries,         \* parameter of the running handle_retries call
    tryIdx,        \* iterations of `for _ in range(tries)` begun
    needed_files,  \* the accumulator
    returned,      \* value returned by sdo_download
    exc,           \* exception that ended the run
    firstErrors,   \* failure list of the latest initial fetch
    fetchArg,      \* id of the object handed to the latest Fido.fetch call
    log,           \* calls issued so far by the running call, in order
    entry,         \* function the caller entered the package through
    calls,         \* calls into the package the caller has made
    given,         \* needed_files argument of a direct handle_retries call
    callerList,    \* content of the list object the caller passed
    nfRef,         \* object that needed_files of handle_retries is bound to
    retRef,        \* object that handle_retries returned
    earlier,       \* an earlier call returned a list that was not empty
    none_args,     \* parameters of sdo_download that are None
    start_time,    \* argument of sdo_download, after line 74
    end_time,      \* argument of sdo_download, after line 75
    obsInfo,       \* foxsi4_science_tools_py.obsInfo
    reads,         \* key paths of obsInfo the running call has read
    yamlFile,      \* what is at the path of the observation-parameters file
    opened,        \* the file the latest load opened
    loaded,        \* value returned by the latest load_yaml / load_obs_info
    opens          \* open() calls of the latest load

sessionVars == << entry, calls, given, callerList, nfRef, retRef, earlier >>
configVars == << none_args, start_time, end_time, obsInfo, reads >>
loadVars == << yamlFile, opened, loaded, opens >>

vars == << wave_values, get_hmi, channels, idx, pc, dirs, unifresp, filepaths,
           tries, tryIdx, needed_files, returned, exc, firstErrors, fetchArg, log,
           sessionVars, configVars, loadVars >>

NoObject == [kind |-> "none", id |-> 0]
NotReturned == "not returned"

\* one call: the operation, the loop position it was issued at, what it was
\* issued on (a directory, a query) and how it came back: "raised",
\* "returned", and for a retry fetch "clean" (empty failure list) or
\* "failures". The failure list of an initial fetch is kept in firstErrors.
Event(op, chan, what, out) == [op |-> op, chan |-> chan, what |-> what, out |-> out]

\* how a retry fetch with failure list e came back
RetryOutcome(e) == IF e = <<>> THEN "clean" ELSE "failures"

\* the needed_files argument of handle_retries: None, or a list object
NoList == [none |-> TRUE, list |-> <<>>]
GivenList(l) == [none |-> FALSE, list |-> l]

\* time bounds a caller supplies
SuppliedStart == PyStr("2024-04-17T22:00:00")
SuppliedEnd == PyStr("2024-04-17T22:20:00")

\* the caller makes one call, sdo_download
SingleCall ==
    /\ entry = "sdo_download"
    /\ calls = 1
    /\ given = NoList
    /\ callerList = <<>>
    /\ nfRef = "none"
    /\ retRef = "none"
    /\ earlier = FALSE

\* the caller supplies every argument that has None as its default
AllSupplied ==
    /\ none_args = {}
    /\ start_time = SuppliedStart
    /\ end_time = SuppliedEnd
    /\ reads = {}

\* the package was imported with the observation-parameters file in place
Imported ==
    /\ obsInfo = RepoObsInfo
    /\ yamlFile = [state |-> "wellformed", doc |-> ObsParamsDoc]
    /\ opened = yamlFile
    /\ loaded = NoMapping
    /\ opens = 0

Init ==
    /\ wave_values \in SeqsUpTo(Wavelengths, MaxWaves)
    /\ get_hmi \in BOOLEAN
    /\ dirs \in { {}, DirNames }
    /\ channels = <<>>
    /\ idx = 0
    /\ pc = "start"
    /\ unifresp = NoObject
    /\ filepaths = NoObject
    /\ tries = DefaultTries
    /\ tryIdx = 0
    /\ needed_files = <<>>
    /\ returned = NotReturned
    /\ exc = "none"
    /\ firstErrors = <<>>
    /\ fetchArg = NoObject.id
    /\ log = <<>>
    /\ SingleCall
    /\ AllSupplied
    /\ Imported

(* ---------------------------------------------------------------------- *)
(* External collaborators                                                 *)
(* ---------------------------------------------------------------------- *)

\* Fido.search(*search): the unresolved result object of one query; a result
\* object is told from the others by the number n of the call that made it
SearchResult(ch, n) ==
    [kind |-> "UnifiedResponse", query |-> <<ch.inst, ch.wave>>, errors |-> <<>>, id |-> n]

\* Fido.fetch(arg, ...): a new result object for the query of arg, carrying
\* the failure list e of this transfer
FetchResult(arg, e, n) == [kind |-> "Results", query |-> arg.query, errors |-> e, id |-> n]

(* ---------------------------------------------------------------------- *)
(* Pure parts of handle_retries                                           *)
(* ---------------------------------------------------------------------- *)

\* variant of RetryArg: the retry fetches the search result again
RetryArg_SearchResult(fp, ur) == ur

\* the object handed to Fido.fetch in the retry loop: filepaths = Fido.fetch(filepaths)
RetryArg(fp, ur) == fp

\* variant of LoopContinues: the loop runs until a retry comes back clean
LoopContinues_Unbounded(k, n, broke) == ~broke

\* variant of LoopContinues: one iteration too many (range(n + 1))
LoopContinues_OneMore(k, n, broke) == k <= n /\ ~broke

\* whether `for _ in range(n)` runs another iteration after k iterations,
\* the latest of which did or did not break
LoopContinues(k, n, broke) == k < n /\ ~broke

\* variant of Breaks: the loop has no early exit
Breaks_Never(errs) == FALSE

\* if filepaths.errors == []: break
Breaks(errs) == errs = <<>>

\* variant of AppendFailed: needed_files.extend(filepaths.errors)
AppendFailed_Extend(nf, errs) == IF errs # <<>> THEN nf \o errs ELSE nf

\* variant of AppendFailed: the append is not guarded by the failure list
AppendFailed_Unguarded(nf, errs) == Append(nf, errs)

\* variant of AppendFailed: the accumulator passed in is dropped (the call
\* is made without needed_files=needed_files)
AppendFailed_Fresh(nf, errs) == IF errs # <<>> THEN << errs >> ELSE <<>>

\* if filepaths.errors != []: needed_files.append(filepaths.errors)
AppendFailed(nf, errs) == IF errs # <<>> THEN Append(nf, errs) ELSE nf

(* ---------------------------------------------------------------------- *)
(* Steps of one run of sdo_download                                       *)
(* ---------------------------------------------------------------------- *)

StartPath == <<"flare", "time_of_interest", "start", "utc">>
EndPath == <<"flare", "time_of_interest", "end", "utc">>

\* variant of ObsInfoReads: both defaults are looked up before the test for
\* None
ObsInfoReads_Eager(na) == { StartPath, EndPath }

\* lines 74, 75: the conditional expressions evaluate the obsInfo lookup only
\* when the argument is None
ObsInfoReads(na) ==
    { p \in { StartPath, EndPath } :
        \/ p = StartPath /\ "start_time" \in na
        \/ p = EndPath /\ "end_time" \in na }

\* variant of WaveValuesOrDefault: None is taken as the empty list
WaveValuesOrDefault_NoneIsEmpty(na, wvs) == IF "wave_values" \in na THEN <<>> ELSE wvs

\* line 77: the nine AIA wavelengths when wave_values is None, the caller's
\* list otherwise
WaveValuesOrDefault(na, wvs) == IF "wave_values" \in na THEN DefaultWaveValues ELSE wvs

\* variant of Setup: the accumulator is a list that outlives the run (a
\* module-level list), so line 91 does not start it afresh
Setup_KeepsAccumulator ==
    /\ pc = "start"
    /\ start_time' = IF "start_time" \in none_args
                     THEN obsInfo.flare.time_of_interest.start.utc
                     ELSE start_time
    /\ end_time' = IF "end_time" \in none_args
                   THEN obsInfo.flare.time_of_interest["end"].utc
                   ELSE end_time
    /\ reads' = reads \cup ObsInfoReads(none_args)
    /\ wave_values' = WaveValuesOrDefault(none_args, wave_values)
    /\ channels' = Channels(wave_values', get_hmi)
    /\ idx' = 1
    /\ pc' = "loop"
    /\ UNCHANGED << firstErrors, get_hmi, dirs, unifresp, filepaths, tries, tryIdx,
                    returned, exc, fetchArg, log, none_args, obsInfo, needed_files >>
    /\ UNCHANGED << sessionVars, loadVars >>

\* lines 73-91: defaults, the three zipped lists, needed_files = []
Setup ==
    /\ pc = "start"
    /\ start_time' = IF "start_time" \in none_args
                     THEN obsInfo.flare.time_of_interest.start.utc
                     ELSE start_time
    /\ end_time' = IF "end_time" \in none_args
                   THEN obsInfo.flare.time_of_interest["end"].utc
                   ELSE end_time
    /\ reads' = reads \cup ObsInfoReads(none_args)
    /\ wave_values' = WaveValuesOrDefault(none_args, wave_values)
    /\ channels' = Channels(wave_values', get_hmi)
    /\ needed_files' = <<>>
    /\ idx' = 1
    /\ pc' = "loop"
    /\ UNCHANGED << firstErrors, get_hmi, dirs, unifresp, filepaths, tries, tryIdx,
                    returned, exc, fetchArg, log, none_args, obsInfo >>
    /\ UNCHANGED << sessionVars, loadVars >>

\* variant of MakeDirs: the directories of all channels are made before the
\* first channel is searched
MakeDirs_AllUpFront ==
    /\ pc = "loop"
    /\ idx <= Len(channels)
    /\ dirs' = IF idx = 1 THEN dirs \cup { channels[i].wd : i \in 1..Len(channels) } ELSE dirs
    /\ log' = IF idx = 1
              THEN log \o [i \in 1..Len(channels) |-> Event("makedirs", i, channels[i].wd, "returned")]
              ELSE log
    /\ pc' = "search"
    /\ UNCHANGED << firstErrors, wave_values, get_hmi, channels, idx, unifresp, filepaths, tries,
                    tryIdx, needed_files, returned, exc, fetchArg >>
    /\ UNCHANGED << sessionVars, configVars, loadVars >>

\* lines 93-99: next element of the zip, os.makedirs(curr_wdir, exist_ok=True)
MakeDirs ==
    /\ pc = "loop"
    /\ idx <= Len(channels)
    /\ dirs' = dirs \cup { channels[idx].wd }
    /\ log' = Append(log, Event("makedirs", idx, channels[idx].wd, "returned"))
    /\ pc' = "search"
    /\ UNCHANGED << firstErrors, wave_values, get_hmi, channels, idx, unifresp, filepaths, tries,
                    tryIdx, needed_files, returned, exc, fetchArg >>
    /\ UNCHANGED << sessionVars, configVars, loadVars >>

\* variant of MakeDirsRaises: os.makedirs without exist_ok=True, which raises
\* FileExistsError for a directory that is already there
MakeDirsRaises_ExistNotOk ==
    /\ pc = "loop"
    /\ idx <= Len(channels)
    /\ log' = Append(log, Event("makedirs", idx, channels[idx].wd, "raised"))
    /\ exc' = "OSError"
    /\ pc' = "raised"
    /\ UNCHANGED << firstErrors, wave_values, get_hmi, channels, idx, dirs, unifresp, filepaths,
                    tries, tryIdx, needed_files, returned, fetchArg >>
    /\ UNCHANGED << sessionVars, configVars, loadVars >>

\* line 96 raising: the directory does not exist and cannot be created
MakeDirsRaises ==
    /\ pc = "loop"
    /\ idx <= Len(channels)
    /\ channels[idx].wd \notin dirs
    /\ log' = Append(log, Event("makedirs", idx, channels[idx].wd, "raised"))
    /\ exc' = "OSError"
    /\ pc' = "raised"
    /\ UNCHANGED << firstErrors, wave_values, get_hmi, channels, idx, dirs, unifresp, filepaths,
                    tries, tryIdx, needed_files, returned, fetchArg >>
    /\ UNCHANGED << sessionVars, configVars, loadVars >>

\* lines 101, 150: unifresp = Fido.search(*search)
FidoSearch ==
    /\ pc = "search"
    /\ unifresp' = SearchResult(channels[idx], Len(log) + 1)
    /\ log' = Append(log, Event("search", idx, <<channels[idx].inst, channels[idx].wave>>, "returned"))
    /\ pc' = "fetch"
    /\ UNCHANGED << firstErrors, wave_values, get_hmi, channels, idx, dirs, filepaths, tries,
                    tryIdx, needed_files, returned, exc, fetchArg >>
    /\ UNCHANGED << sessionVars, configVars, loadVars >>

\* line 150 raising: nothing in fido_download or sdo_download catches it
FidoSearchRaises ==
    /\ pc = "search"
    /\ log' = Append(log, Event("search", idx, <<channels[idx].inst, channels[idx].wave>>, "raised"))
    /\ exc' = "SearchError"
    /\ pc' = "raised"
    /\ UNCHANGED << firstErrors, wave_values, get_hmi, channels, idx, dirs, unifresp, filepaths,
                    tries, tryIdx, needed_files, returned, fetchArg >>
    /\ UNCHANGED << sessionVars, configVars, loadVars >>

\* lines 152-155, 104, 192: filepaths = Fido.fetch(unifresp, **fetch), returned
\* to sdo_download and passed to handle_retries with the default tries
FidoFetch ==
    /\ pc = "fetch"
    /\ \E e \in ErrorLists :
          /\ filepaths' = FetchResult(unifresp, e, Len(log) + 1)
          /\ firstErrors' = e
          /\ log' = Append(log, Event("fetch", idx, unifresp.query, "returned"))
    /\ fetchArg' = unifresp.id
    /\ tries' = DefaultTries
    /\ tryIdx' = 0
    /\ pc' = IF LoopContinues(0, tries', FALSE) THEN "retry" ELSE "check"
    /\ UNCHANGED << wave_values, get_hmi, channels, idx, dirs, unifresp,
                    needed_files, returned, exc >>
    /\ UNCHANGED << sessionVars, configVars, loadVars >>

\* line 153 raising
FidoFetchRaises ==
    /\ pc = "fetch"
    /\ log' = Append(log, Event("fetch", idx, unifresp.query, "raised"))
    /\ fetchArg' = unifresp.id
    /\ exc' = "FetchError"
    /\ pc' = "raised"
    /\ UNCHANGED << firstErrors, wave_values, get_hmi, channels, idx, dirs, unifresp, filepaths,
                    tries, tryIdx, needed_files, returned >>
    /\ UNCHANGED << sessionVars, configVars, loadVars >>

\* lines 194-198: one iteration of the retry loop
RetryFetch ==
    /\ pc = "retry"
    /\ LoopContinues(tryIdx, tries, FALSE)
    /\ fetchArg' = RetryArg(filepaths, unifresp).id
    /\ \E e \in ErrorLists :
          /\ filepaths' = FetchResult(RetryArg(filepaths, unifresp), e, Len(log) + 1)
          /\ log' = Append(log, Event("retry", idx, RetryArg(filepaths, unifresp).query, RetryOutcome(e)))
          /\ pc' = IF LoopContinues(tryIdx + 1, tries, Breaks(e)) THEN "retry" ELSE "check"
    /\ tryIdx' = tryIdx + 1
    /\ UNCHANGED << firstErrors, wave_values, get_hmi, channels, idx, dirs, unifresp, tries,
                    needed_files, returned, exc >>
    /\ UNCHANGED << sessionVars, configVars, loadVars >>

\* line 196 raising
RetryFetchRaises ==
    /\ pc = "retry"
    /\ LoopContinues(tryIdx, tries, FALSE)
    /\ fetchArg' = RetryArg(filepaths, unifresp).id
    /\ log' = Append(log, Event("retry", idx, RetryArg(filepaths, unifresp).query, "raised"))
    /\ tryIdx' = tryIdx + 1
    /\ exc' = "FetchError"
    /\ pc' = "raised"
    /\ UNCHANGED << firstErrors, wave_values, get_hmi, channels, idx, dirs, unifresp, filepaths,
                    tries, needed_files, returned >>
    /\ UNCHANGED << sessionVars, configVars, loadVars >>

\* lines 200-203, 104: the loop is over; append the failure list if it is
\* not empty, return the accumulator to sdo_download, go to the next channel
HandleRetriesReturn ==
    /\ pc = "check"
    /\ entry = "sdo_download"
    /\ needed_files' = AppendFailed(needed_files, filepaths.errors)
    /\ log' = IF needed_files' # needed_files
              THEN Append(log, Event("append", idx, "needed_files", "returned"))
              ELSE log
    /\ idx' = idx + 1
    /\ pc' = "loop"
    /\ UNCHANGED << firstErrors, wave_values, get_hmi, channels, dirs, unifresp, filepaths, tries,
                    tryIdx, returned, exc, fetchArg >>
    /\ UNCHANGED << sessionVars, configVars, loadVars >>

\* lines 106-109: the zip is exhausted; return needed_files
Return ==
    /\ pc = "loop"
    /\ idx > Len(channels)
    /\ returned' = needed_files
    /\ pc' = "done"
    /\ UNCHANGED << firstErrors, wave_values, get_hmi, channels, idx, dirs, unifresp, filepaths,
                    tries, tryIdx, needed_files, exc, fetchArg, log >>
    /\ UNCHANGED << sessionVars, configVars, loadVars >>

Next ==
    \/ Setup
    \/ MakeDirs
    \/ MakeDirsRaises
    \/ FidoSearch
    \/ FidoSearchRaises
    \/ FidoFetch
    \/ FidoFetchRaises
    \/ RetryFetch
    \/ RetryFetchRaises
    \/ HandleRetriesReturn
    \/ Return

Spec == Init /\ [][Next]_vars

\* the steps of a run in which every collaborator call returns
NextReturns ==
    \/ Setup
    \/ MakeDirs
    \/ FidoSearch
    \/ FidoFetch
    \/ RetryFetch
    \/ HandleRetriesReturn
    \/ Return

\* one thread runs the calls one after the other: a run that can take a step
\* takes it
SpecReturns == Init /\ [][NextReturns]_vars /\ WF_vars(NextReturns)

(* ---------------------------------------------------------------------- *)
(* A caller that calls into the package more than once                    *)
(* ---------------------------------------------------------------------- *)

\* calls one caller makes
MaxCalls == 2

\* the wave_values lists and the needed_files lists the caller passes
SessionWaveLists == { <<>>, <<94>> }
GivenLists == { <<>>, << <<E1>> >>, << <<E1, E2>>, <<E1>> >> }

NoneValue == [type |-> "NoneType", str |-> "", int |-> 0]

\* the result object a caller hands to handle_retries: the result of a fetch
\* it made itself, with failure list e
GivenResult(e) == [kind |-> "Results", query |-> <<"AIA", 171>>, errors |-> e, id |-> 0]

\* the previous call is over (returned, or raised into the caller) and the
\* package is imported
CanCall ==
    /\ calls < MaxCalls
    /\ \/ pc \in {"idle", "done"}
       \/ pc = "raised" /\ entry # "import"

ReturnedNonEmpty ==
    /\ pc = "done"
    /\ entry \in {"sdo_download", "direct"}
    /\ returned # <<>>

\* variant of BoundRef: handle_retries works on a copy of the list it is given
BoundRef_Copy(g) == "fresh"

\* line 192: the object needed_files is bound to, the caller's list or the
\* list the expression [] makes
BoundRef(g) == IF g.none THEN "fresh" ELSE "caller"

\* variant of BoundList: the default is one list shared by all calls, which
\* still holds what the previous call left in it (stale)
BoundList_SharedDefault(g, stale) == IF g.none THEN stale ELSE g.list

\* line 192: the content of that object, [] for None whatever list an earlier
\* call built (stale)
BoundList(g, stale) == IF g.none THEN <<>> ELSE g.list

\* the caller calls sdo_download(start_time, end_time, directory, wave_values,
\* get_hmi) with one of the sets nas of arguments left at None; the name
\* needed_files is not bound before line 91
CallSdoDownload(nas) ==
    /\ CanCall
    /\ \E wvs \in SessionWaveLists, hmi \in BOOLEAN, na \in nas :
          /\ wave_values' = wvs
          /\ get_hmi' = hmi
          /\ none_args' = na
          /\ start_time' = IF "start_time" \in na THEN NoneValue ELSE SuppliedStart
          /\ end_time' = IF "end_time" \in na THEN NoneValue ELSE SuppliedEnd
    /\ reads' = {}
    /\ channels' = <<>>
    /\ idx' = 0
    /\ pc' = "start"
    /\ unifresp' = NoObject
    /\ filepaths' = NoObject
    /\ tries' = DefaultTries
    /\ tryIdx' = 0
    /\ returned' = NotReturned
    /\ exc' = "none"
    /\ firstErrors' = <<>>
    /\ fetchArg' = NoObject.id
    /\ log' = <<>>
    /\ entry' = "sdo_download"
    /\ calls' = calls + 1
    /\ given' = NoList
    /\ callerList' = <<>>
    /\ nfRef' = "none"
    /\ retRef' = "none"
    /\ earlier' = (earlier \/ ReturnedNonEmpty)
    /\ UNCHANGED << needed_files, dirs, obsInfo, loadVars >>

\* lines 157-194: the caller calls handle_retries(filepaths, tries=t,
\* needed_files=g) itself; line 192 binds needed_files, then the loop begins
DirectCall ==
    /\ CanCall
    /\ \E e \in ErrorLists, t \in 0..DefaultTries,
          g \in {NoList} \cup { GivenList(l) : l \in GivenLists } :
          /\ filepaths' = GivenResult(e)
          /\ firstErrors' = e
          /\ tries' = t
          /\ given' = g
          /\ callerList' = g.list
          /\ nfRef' = BoundRef(g)
          /\ needed_files' = BoundList(g, needed_files)
          /\ pc' = IF LoopContinues(0, t, FALSE) THEN "retry" ELSE "check"
    /\ tryIdx' = 0
    /\ wave_values' = <<>>
    /\ get_hmi' = FALSE
    /\ none_args' = {}
    /\ start_time' = SuppliedStart
    /\ end_time' = SuppliedEnd
    /\ reads' = {}
    /\ channels' = <<>>
    /\ idx' = 0
    /\ unifresp' = NoObject
    /\ returned' = NotReturned
    /\ exc' = "none"
    /\ fetchArg' = NoObject.id
    /\ log' = <<>>
    /\ entry' = "direct"
    /\ calls' = calls + 1
    /\ retRef' = "none"
    /\ earlier' = (earlier \/ ReturnedNonEmpty)
    /\ UNCHANGED << dirs, obsInfo, loadVars >>

\* lines 200-203: the loop is over; append the failure list, if it is not
\* empty, to the object needed_files is bound to, and return that object
DirectReturn ==
    /\ pc = "check"
    /\ entry = "direct"
    /\ needed_files' = AppendFailed(needed_files, filepaths.errors)
    /\ callerList' = IF nfRef = "caller" THEN needed_files' ELSE callerList
    /\ log' = IF needed_files' # needed_files
              THEN Append(log, Event("append", idx, "needed_files", "returned"))
              ELSE log
    /\ returned' = needed_files'
    /\ retRef' = nfRef
    /\ pc' = "done"
    /\ UNCHANGED << firstErrors, wave_values, get_hmi, channels, idx, dirs, unifresp, filepaths,
                    tries, tryIdx, exc, fetchArg >>
    /\ UNCHANGED << entry, calls, given, nfRef, earlier, configVars, loadVars >>

InitSession ==
    /\ wave_values = <<>>
    /\ get_hmi = FALSE
    /\ dirs = {}
    /\ channels = <<>>
    /\ idx = 0
    /\ pc = "idle"
    /\ unifresp = NoObject
    /\ filepaths = NoObject
    /\ tries = DefaultTries
    /\ tryIdx = 0
    /\ needed_files = <<>>
    /\ returned = NotReturned
    /\ exc = "none"
    /\ firstErrors = <<>>
    /\ fetchArg = NoObject.id
    /\ log = <<>>
    /\ entry = "none"
    /\ calls = 0
    /\ given = NoList
    /\ callerList = <<>>
    /\ nfRef = "none"
    /\ retRef = "none"
    /\ earlier = FALSE
    /\ AllSupplied
    /\ Imported

NextSession ==
    \/ CallSdoDownload({{}})
    \/ DirectCall
    \/ DirectReturn
    \/ Next

SpecSession == InitSession /\ [][NextSession]_vars

(* ---------------------------------------------------------------------- *)
(* Import of the package, then calls of sdo_download                      *)
(* ---------------------------------------------------------------------- *)

\* __init__.py lines 27-30: obsInfo = load_obs_info() runs when the package is
\* imported; if the load raises, the import fails and obsInfo is never bound
ImportPackage ==
    /\ pc = "import"
    /\ obsInfo' = LoadObsInfo(yamlFile).value
    /\ opened' = yamlFile
    /\ loaded' = LoadObsInfo(yamlFile).value
    /\ opens' = LoadObsInfo(yamlFile).opens
    /\ exc' = LoadObsInfo(yamlFile).exc
    /\ pc' = IF LoadObsInfo(yamlFile).exc = "none" THEN "idle" ELSE "raised"
    /\ UNCHANGED << wave_values, get_hmi, channels, idx, dirs, unifresp, filepaths, tries,
                    tryIdx, needed_files, returned, firstErrors, fetchArg, log >>
    /\ UNCHANGED << sessionVars, none_args, start_time, end_time, reads, yamlFile >>

\* the process has started and the package is about to be imported
NotImported ==
    /\ wave_values = <<>>
    /\ get_hmi = FALSE
    /\ dirs = {}
    /\ channels = <<>>
    /\ idx = 0
    /\ pc = "import"
    /\ unifresp = NoObject
    /\ filepaths = NoObject
    /\ tries = DefaultTries
    /\ tryIdx = 0
    /\ needed_files = <<>>
    /\ returned = NotReturned
    /\ exc = "none"
    /\ firstErrors = <<>>
    /\ fetchArg = NoObject.id
    /\ log = <<>>
    /\ entry = "import"
    /\ calls = 0
    /\ given = NoList
    /\ callerList = <<>>
    /\ nfRef = "none"
    /\ retRef = "none"
    /\ earlier = FALSE
    /\ AllSupplied
    /\ obsInfo = NoMapping
    /\ opened = NoFile
    /\ loaded = NoMapping
    /\ opens = 0

InitConfig ==
    /\ NotImported
    /\ yamlFile \in FileStates

\* the sets of time bounds a caller can leave at None
TimeDefaults == SUBSET {"start_time", "end_time"}

NextConfig ==
    \/ ImportPackage
    \/ CallSdoDownload(TimeDefaults)
    \/ Next

SpecConfig == InitConfig /\ [][NextConfig]_vars

(* ---------------------------------------------------------------------- *)
(* Import of the package, then calls of the loader                        *)
(* ---------------------------------------------------------------------- *)

\* what every call of the loader leaves as it was
LoaderCallFrame ==
    /\ calls' = calls + 1
    /\ returned' = NotReturned
    /\ log' = <<>>
    /\ UNCHANGED << wave_values, get_hmi, channels, idx, dirs, unifresp, filepaths, tries,
                    tryIdx, needed_files, firstErrors, fetchArg >>
    /\ UNCHANGED << given, callerList, nfRef, retRef, earlier, configVars, yamlFile >>

\* load_yaml.py lines 17-19: a caller calls load_obs_info()
CallLoadObsInfo ==
    /\ CanCall
    /\ entry' = "load_obs_info"
    /\ opened' = yamlFile
    /\ loaded' = LoadObsInfo(yamlFile).value
    /\ opens' = LoadObsInfo(yamlFile).opens
    /\ exc' = LoadObsInfo(yamlFile).exc
    /\ pc' = IF LoadObsInfo(yamlFile).exc = "none" THEN "done" ELSE "raised"
    /\ LoaderCallFrame

\* load_yaml.py lines 10-15: a caller calls load_yaml(filename) on a file of
\* its own
CallLoadYaml ==
    /\ CanCall
    /\ entry' = "load_yaml"
    /\ \E file \in FileStates :
          /\ opened' = file
          /\ loaded' = LoadYaml(file).value
          /\ opens' = LoadYaml(file).opens
          /\ exc' = LoadYaml(file).exc
          /\ pc' = IF LoadYaml(file).exc = "none" THEN "done" ELSE "raised"
    /\ LoaderCallFrame

NextLoad ==
    \/ ImportPackage
    \/ CallLoadObsInfo
    \/ CallLoadYaml

SpecLoad == InitConfig /\ [][NextLoad]_vars

(* ---------------------------------------------------------------------- *)
(* sdo_download called with any of its defaults, up to line 91            *)
(* ---------------------------------------------------------------------- *)

\* a call of sdo_download in which each of start_time, end_time and
\* wave_values is either supplied or left at None
InitDefaults ==
    /\ none_args \in SUBSET {"start_time", "end_time", "wave_values"}
    /\ wave_values \in IF "wave_values" \in none_args
                       THEN { NoneValue }
                       ELSE SeqsUpTo(Wavelengths, MaxWaves)
    /\ start_time = IF "start_time" \in none_args THEN NoneValue ELSE SuppliedStart
    /\ end_time = IF "end_time" \in none_args THEN NoneValue ELSE SuppliedEnd
    /\ reads = {}
    /\ get_hmi \in BOOLEAN
    /\ dirs = {}
    /\ channels = <<>>
    /\ idx = 0
    /\ pc = "start"
    /\ unifresp = NoObject
    /\ filepaths = NoObject
    /\ tries = DefaultTries
    /\ tryIdx = 0
    /\ needed_files = <<>>
    /\ returned = NotReturned
    /\ exc = "none"
    /\ firstErrors = <<>>
    /\ fetchArg = NoObject.id
    /\ log = <<>>
    /\ SingleCall
    /\ Imported

\* lines 73-91 only: with the nine default wavelengths the loop over the
\* channels is beyond what can be enumerated
NextDefaults == Setup

SpecDefaults == InitDefaults /\ [][NextDefaults]_vars

TypeOK ==
    /\ pc \in {"import", "idle", "start", "loop", "search", "fetch", "retry", "check", "done",
               "raised"}
    /\ idx \in 0..(Len(channels) + 1)
    /\ tryIdx \in 0..tries
    /\ exc \in {"none", "OSError", "SearchError", "FetchError", "FileNotFoundError",
                "PermissionError", "YAMLError"}
    /\ entry \in {"none", "import", "sdo_download", "direct", "load_yaml", "load_obs_info"}
    /\ calls \in 0..MaxCalls
    /\ nfRef \in {"none", "fresh", "caller"}
    /\ retRef \in {"none", "fresh", "caller"}
    /\ none_args \subseteq {"start_time", "end_time", "wave_values"}

(* ---------------------------------------------------------------------- *)
(* Views of the call log                                                  *)
(* ---------------------------------------------------------------------- *)

\* the calls of one kind, in the order they were issued
Calls(o) == SelectSeq(log, LAMBDA ev : ev.op = o)

\* the calls issued at loop position c, in the order they were issued
ChanCalls(c) == SelectSeq(log, LAMBDA ev : ev.chan = c)

\* the retry fetches issued at loop position c
Retries(c) == SelectSeq(log, LAMBDA ev : ev.chan = c /\ ev.op = "retry")

\* what each call of a sequence was issued on
Targets(evs) == [i \in 1..Len(evs) |-> evs[i].what]

LastCall == log[Len(log)]

\* the step is the return of handle_retries to sdo_download
ReturnsFromRetries == pc = "check" /\ pc' = "loop"

\* the step issues a retry fetch
IssuesRetry == Len(log') = Len(log) + 1 /\ log'[Len(log')].op = "retry"

(* ---------------------------------------------------------------------- *)
(* C1                                                                     *)
(* ---------------------------------------------------------------------- *)

\* the queries a run is to issue, written from the arguments alone: one AIA
\* query per wavelength in the order of wave_values, then the HMI query
ExpectedQueries ==
    [i \in 1..Len(wave_values) |-> <<"AIA", <<"Wavelength", wave_values[i]>>>>]
        \o (IF get_hmi THEN << <<"hmi", <<"Physobs", "LOS_magnetic_field">>>> >> ELSE <<>>)

\* C1: the initial searches and the initial fetches issued so far are, in
\* order, a prefix of the expected queries (one per channel, in the order of
\* wave_values, HMI last), whatever the outcomes of earlier channels; a run
\* that returns has issued exactly all of them (N, or N+1 with get_hmi).
C1_OneInitialFetchPerChannelInOrder ==
    /\ IsPrefix(Targets(Calls("search")), ExpectedQueries)
    /\ IsPrefix(Targets(Calls("fetch")), ExpectedQueries)
    /\ pc = "done" =>
          /\ Targets(Calls("search")) = ExpectedQueries
          /\ Targets(Calls("fetch")) = ExpectedQueries
          /\ Len(Calls("fetch")) = Len(wave_values) + (IF get_hmi THEN 1 ELSE 0)

\* a returned run over two different wavelengths and HMI in which the first
\* channel ended with failures and the second with none
C1_Witness ==
    /\ pc = "done"
    /\ get_hmi
    /\ Len(wave_values) = 2
    /\ wave_values[1] # wave_values[2]
    /\ Len(Calls("fetch")) = 3
    /\ \E i \in 1..Len(log) : log[i].op = "append" /\ log[i].chan = 1
    /\ \E i \in 1..Len(log) : log[i].op = "retry" /\ log[i].chan = 2 /\ log[i].out = "clean"

(* ---------------------------------------------------------------------- *)
(* C2                                                                     *)
(* ---------------------------------------------------------------------- *)

C3_RecoveredChannelAppendsNothing ==
    [][ (ReturnsFromRetries /\ filepaths.errors = <<>>)
          => needed_files' = needed_files ]_vars

\* the first channel failed its initial fetch and two retries, its third
\* retry came back clean, and the accumulator is unchanged afterwards
C3_Witness ==
    /\ pc = "loop"
    /\ idx = 2
    /\ Len(Retries(1)) = 3
    /\ firstErrors # <<>>
    /\ Retries(1)[1].out = "failures"
    /\ Retries(1)[2].out = "failures"
    /\ Retries(1)[3].out = "clean"
    /\ needed_files = <<>>

(* ---------------------------------------------------------------------- *)
(* C4                                                                     *)
(* ---------------------------------------------------------------------- *)

\* C4: a channel whose initial fetch came back with an empty failure list
\* gets no further fetch call: no retry fetch is issued at its loop position.
C4_NoRetryAfterCleanInitialFetch ==
    (pc \in {"retry", "check"} /\ firstErrors = <<>>) => Len(Retries(idx)) = 0

(* ---------------------------------------------------------------------- *)
(* C5                                                                     *)
(* ---------------------------------------------------------------------- *)

\* C5: no channel gets more than `tries` retry fetches, and once a retry
\* fetch of a channel has come back with an empty failure list no later
\* fetch call (initial or retry) is issued for that channel.
C5_RetriesBoundedAndStopOnSuccess ==
    /\ \A c \in 1..Len(channels) : Len(Retries(c)) <= tries
    /\ \A i \in 1..Len(log) :
          (log[i].op = "retry" /\ log[i].out = "clean") =>
              \A j \in (i + 1)..Len(log) :
                  ~(log[j].chan = log[i].chan /\ log[j].op \in {"fetch", "retry"})

\* the first channel stopped at its second retry, which came back clean, the
\* run went on, and the second channel used all of its retries
C5_Witness ==
    /\ Len(channels) >= 2
    /\ Len(Retries(1)) = 2
    /\ Retries(1)[2].out = "clean"
    /\ Len(Retries(2)) = tries
    /\ pc = "done"

(* ---------------------------------------------------------------------- *)
(* C6                                                                     *)
(* ---------------------------------------------------------------------- *)

\* C6: in every step the accumulator keeps its previous value as a prefix
\* (batches of earlier channels are never removed, reordered or altered), one
\* batch per append in channel order, and the list returned is the accumulator.
C6_NeededFilesOnlyGrows ==
    [][ /\ IsPrefix(needed_files, needed_files')
        /\ Len(needed_files') = Len(SelectSeq(log', LAMBDA ev : ev.op = "append"))
        /\ (pc' = "done" => returned' = needed_files') ]_vars

\* a returned run in which the first and the third channel left different
\* batches and the second channel recovered in between
C6_Witness ==
    /\ pc = "done"
    /\ Len(channels) = 3
    /\ returned = << <<E1, E2>>, <<E1>> >>
    /\ Targets(Calls("append")) = << "needed_files", "needed_files" >>
    /\ Calls("append")[1].chan = 1
    /\ Calls("append")[2].chan = 3

(* ---------------------------------------------------------------------- *)
(* C7                                                                     *)
(* ---------------------------------------------------------------------- *)

\* the channels whose processing has reached the search call
Searched == { c \in 1..Len(channels) : \E i \in 1..Len(log) : log[i].chan = c /\ log[i].op # "makedirs" }

\* C7: every channel that got as far as its search has exactly one search
\* call (a returned run has as many searches as channels), and a retry fetch
\* is handed the result object returned by the preceding fetch of the same
\* channel, never the search result or a new search.
C7_RetriesResumeTheSameResult ==
    /\ [](/\ \A c \in 1..Len(channels) :
                Len(SelectSeq(log, LAMBDA ev : ev.chan = c /\ ev.op = "search"))
                    = (IF c \in Searched THEN 1 ELSE 0)
          /\ pc = "done" => Len(Calls("search")) = Len(channels))
    /\ [][ IssuesRetry =>
             /\ fetchArg' = filepaths.id
             /\ filepaths.kind = "Results"
             /\ LastCall.op \in {"fetch", "retry"}
             /\ LastCall.chan = log'[Len(log')].chan ]_vars

\* a third retry of the second channel has been issued on the result of its
\* second retry, which carried failures
C7_Witness ==
    /\ idx = 2
    /\ Len(Retries(2)) = 3
    /\ fetchArg = Len(log) - 1
    /\ log[Len(log) - 1].out = "failures"
    /\ filepaths.id = Len(log)
    /\ filepaths.errors = <<E1>>
    /\ Len(Calls("search")) = 2

(* ---------------------------------------------------------------------- *)
(* C8                                                                     *)
(* ---------------------------------------------------------------------- *)

\* C8: no failure of a search, an initial fetch or a retry fetch ends the
\* run without a returned list; only a directory-creation error (or a
\* configuration-load error, which precedes the run) can.
C8_TransferFailuresNeverAbort ==
    pc = "raised" => exc = "OSError"

(* ---------------------------------------------------------------------- *)
(* C9                                                                     *)
(* ---------------------------------------------------------------------- *)

\* C9: with wave_values = [] and get_hmi = False no call at all is issued
\* (no makedirs, no search, no fetch), no directory is added, the run does
\* not raise, and the list it returns is empty.
C9_NothingRequestedNothingDone ==
    (wave_values = <<>> /\ ~get_hmi) =>
        /\ log = <<>>
        /\ dirs \in { {}, DirNames }
        /\ needed_files = <<>>
        /\ pc \in {"start", "loop", "done"}
        /\ pc = "done" => returned = <<>>

\* the run over no channel at all has returned, in an empty directory
C9_Witness ==
    /\ wave_values = <<>>
    /\ ~get_hmi
    /\ pc = "done"
    /\ returned = <<>>
    /\ dirs = {}

(* ---------------------------------------------------------------------- *)
(* C10                                                                    *)
(* ---------------------------------------------------------------------- *)

\* the order of the calls of one channel: directory, search, initial fetch,
\* retry fetches, append
Rank(o) == CASE o = "makedirs" -> 1 [] o = "search" -> 2 [] o = "fetch" -> 3
             [] o = "retry" -> 4 [] o = "append" -> 5

\* C10: the calls of the log are grouped by channel in channel order: from
\* one call to the next the channel never goes back (so no call of channel K
\* follows a call of a later channel), and within a channel the directory
\* comes first, then the search, the initial fetch, the retry fetches and the
\* append, each but the retry at most once.
C10_ChannelsStrictlySequential ==
    \A i \in 1..(Len(log) - 1) :
        /\ log[i].chan <= log[i + 1].chan
        /\ log[i].chan = log[i + 1].chan =>
              /\ Rank(log[i].op) <= Rank(log[i + 1].op)
              /\ Rank(log[i].op) = Rank(log[i + 1].op) => log[i].op = "retry"

\* a returned run over three channels, each of which was retried, two of
\* which left a batch
C10_Witness ==
    /\ pc = "done"
    /\ Len(channels) = 3
    /\ \A c \in 1..3 : Len(Retries(c)) >= 1
    /\ Len(Calls("append")) = 2
    /\ Len(Retries(2)) = tries

(* ---------------------------------------------------------------------- *)
(* C11                                                                    *)
(* ---------------------------------------------------------------------- *)

\* C11: a search or fetch of a channel comes after the successful directory
\* ensure of that channel. A directory error ends the run: it is the last
\* call, nothing is searched or fetched for that channel or a later one and
\* no list is returned. The directory that failed did not exist: ensuring a
\* directory that is already there (left by an earlier run, or by an earlier
\* channel of this run) never raises.
C11_DirectoryErrorAbortsBeforeFetch ==
    /\ \A i \in 1..Len(log) :
          log[i].op \in {"search", "fetch", "retry"} =>
              \E j \in 1..(i - 1) :
                  /\ log[j].op = "makedirs"
                  /\ log[j].chan = log[i].chan
                  /\ log[j].out = "returned"
    /\ \A i \in 1..Len(log) :
          (log[i].op = "makedirs" /\ log[i].out = "raised") =>
              /\ i = Len(log)
              /\ pc = "raised"
              /\ exc = "OSError"
              /\ returned = NotReturned
              /\ log[i].what \notin dirs
              /\ \A j \in 1..Len(log) : log[j].chan >= log[i].chan => j = i
    /\ exc = "OSError" => (Len(log) > 0 /\ LastCall.op = "makedirs" /\ LastCall.out = "raised")

\* the first channel was processed, then the directory of the second could
\* not be made
C11_Witness ==
    /\ pc = "raised"
    /\ exc = "OSError"
    /\ idx = 2
    /\ Len(Calls("fetch")) = 1
    /\ Len(Calls("search")) = 1
    /\ Len(Calls("makedirs")) = 2
    /\ WaveDir(wave_values[1]) \in dirs

(* ---------------------------------------------------------------------- *)
(* C12                                                                    *)
(* ---------------------------------------------------------------------- *)

\* the fetch calls (initial and retry) issued so far
FetchCount == Len(Calls("fetch")) + Len(Calls("retry"))

\* the channels whose fetch/retry sequence is over
Completed == { c \in 1..Len(channels) : c < idx }

\* C12: when every collaborator call returns, the run ends by returning; the
\* retry sequence of every completed channel ended on an empty failure list
\* or used all `tries` retries; and a run over C channels never issues more
\* than C * (1 + tries) fetch calls.
C12_RunTerminatesWithinFetchBudget ==
    /\ [](FetchCount <= Len(channels) * (1 + tries))
    /\ [](\A c \in Completed :
             /\ Len(Retries(c)) <= tries
             /\ \/ Len(Retries(c)) = tries
                \/ Retries(c)[Len(Retries(c))].out = "clean")
    /\ <>(pc = "done")

\* a returned run over three channels that used the whole budget of
\* 3 * (1 + tries) fetch calls
C12_Witness ==
    /\ pc = "done"
    /\ Len(channels) = 3
    /\ FetchCount = 3 * (1 + tries)

(* ---------------------------------------------------------------------- *)
(* C17                                                                    *)
(* ---------------------------------------------------------------------- *)

\* C17: the accumulator never holds more batches than channels have been
\* completed, and no batch in it is an empty failure list.
C17_AtMostOneNonEmptyBatchPerChannel ==
    /\ Len(needed_files) <= Cardinality(Completed)
    /\ \A i \in 1..Len(needed_files) : needed_files[i] # <<>>

\* two of three completed channels left a batch, the other one recovered
C17_Witness ==
    /\ pc = "loop"
    /\ idx = 4
    /\ Len(needed_files) = 2
    /\ Len(Calls("append")) = 2
    /\ \E c \in 1..3 : Retries(c)[Len(Retries(c))].out = "clean"

(* ---------------------------------------------------------------------- *)
(* C13                                                                    *)
(* ---------------------------------------------------------------------- *)

\* C13: the accumulator does not persist across calls. In every call of
\* sdo_download, from line 91 on, needed_files holds exactly the batches this
\* call appended, and the list returned is that list, also when an earlier
\* call of the session returned a list that was not empty. A call of
\* handle_retries without needed_files works on a fresh empty list: the list
\* it returns holds the failure list of this call as its only batch, or
\* nothing.
C13_FreshAccumulatorEveryCall ==
    /\ (entry = "sdo_download" /\ pc # "start") =>
          /\ Len(needed_files) = Len(Calls("append"))
          /\ Len(needed_files) <= Len(channels)
          /\ pc = "done" => returned = needed_files
    /\ (entry = "direct" /\ given.none) =>
          /\ nfRef = "fresh"
          /\ pc # "done" => needed_files = <<>>
          /\ pc = "done" =>
                /\ retRef = "fresh"
                /\ returned = IF filepaths.errors = <<>> THEN <<>> ELSE << filepaths.errors >>

\* the second call of a session, a run of sdo_download over two channels that
\* returns one batch, after a first call that returned a list with entries
C13_Witness ==
    /\ calls = 2
    /\ earlier
    /\ entry = "sdo_download"
    /\ pc = "done"
    /\ Len(channels) = 2
    /\ Len(returned) = 1

(* ---------------------------------------------------------------------- *)
(* C14                                                                    *)
(* ---------------------------------------------------------------------- *)

\* C14: obsInfo is bound once, by the import of the package, and no step
\* after the import changes it, in particular no step of a run of
\* sdo_download. A run reads from obsInfo only the start and the end of the
\* flare's time of interest, and each of them only for a time bound that the
\* caller left at None: that bound takes the value read, a bound the caller
\* supplied keeps the caller's value.
C14_ObsInfoSetOnceAndReadForDefaultsOnly ==
    /\ [][ /\ obsInfo' # obsInfo => (pc = "import" /\ obsInfo = NoMapping)
           /\ pc # "import" => pc' # "import" ]_vars
    /\ [](entry = "sdo_download" =>
            /\ reads \subseteq { StartPath, EndPath }
            /\ StartPath \in reads => "start_time" \in none_args
            /\ EndPath \in reads => "end_time" \in none_args
            /\ pc # "start" =>
                  /\ start_time = IF "start_time" \in none_args
                                  THEN obsInfo.flare.time_of_interest.start.utc
                                  ELSE SuppliedStart
                  /\ end_time = IF "end_time" \in none_args
                                THEN obsInfo.flare.time_of_interest["end"].utc
                                ELSE SuppliedEnd
                  /\ "start_time" \in none_args => StartPath \in reads
                  /\ "end_time" \in none_args => EndPath \in reads)

\* the second run of a process has returned; the caller gave it an end time
\* and no start time, and it read the start of the time of interest only
C14_Witness ==
    /\ calls = 2
    /\ entry = "sdo_download"
    /\ pc = "done"
    /\ none_args = {"start_time"}
    /\ reads = { StartPath }
    /\ start_time = PyStr("flare onset")
    /\ end_time = SuppliedEnd
    /\ Len(Calls("fetch")) = 2

(* ---------------------------------------------------------------------- *)
(* C15                                                                    *)
(* ---------------------------------------------------------------------- *)

\* m[k1][k2]...[kn]
RECURSIVE Lookup(_, _)
Lookup(m, path) == IF path = <<>> THEN m ELSE Lookup(m[Head(path)], Tail(path))

\* the key paths of a document that end in a scalar
RECURSIVE ScalarPaths(_)
ScalarPaths(node) ==
    IF IsScalar(node) THEN { <<>> }
    ELSE UNION { { <<k>> \o p : p \in ScalarPaths(node[k]) } : k \in DOMAIN node }

\* a load (by the import, by load_obs_info or by load_yaml) is over
LoadOver ==
    \/ entry \in {"load_yaml", "load_obs_info"}
    \/ entry = "import" /\ pc # "import"

\* C15: a load of a well-formed file returns a nested mapping in which the
\* value stored under every key path of the file is found by nested lookup:
\* a quoted scalar as the same string, the plain scalars 0 and 17 as these
\* integers, other plain text as the same string. For the file the tests
\* expect, launch_time.utc is the string "2024-04-17T22:13:00" and
\* launch_time.clock the integer 0, from load_yaml, from load_obs_info and in
\* the obsInfo the import binds. A load of a missing, unreadable or malformed
\* file ends in the error of open or of the parser, after one open, with no
\* mapping returned and, at import, obsInfo left unbound.
C15_LoadReturnsStoredValuesOrRaises ==
    LoadOver =>
        /\ opened.state = "wellformed" =>
              /\ exc = "none"
              /\ pc \in {"idle", "done"}
              /\ opens = 1
              /\ \A p \in ScalarPaths(opened.doc) :
                    /\ Lookup(opened.doc, p).style = "quoted" =>
                          Lookup(loaded, p) = PyStr(Lookup(opened.doc, p).text)
                    /\ Lookup(opened.doc, p) = Plain("0") => Lookup(loaded, p) = PyInt(0)
                    /\ Lookup(opened.doc, p) = Plain("17") => Lookup(loaded, p) = PyInt(17)
                    /\ Lookup(opened.doc, p) = Plain("flare onset") =>
                          Lookup(loaded, p) = PyStr("flare onset")
              /\ opened.doc = ObsParamsDoc =>
                    /\ loaded.flight.foxsi4.launch_time.utc = PyStr("2024-04-17T22:13:00")
                    /\ loaded.flight.foxsi4.launch_time.clock = PyInt(0)
              /\ entry = "import" => obsInfo = loaded
        /\ opened.state # "wellformed" =>
              /\ exc = CASE opened.state = "missing" -> "FileNotFoundError"
                         [] opened.state = "unreadable" -> "PermissionError"
                         [] opened.state = "malformed" -> "YAMLError"
              /\ pc = "raised"
              /\ opens = 1
              /\ loaded = NoMapping
              /\ entry = "import" => obsInfo = NoMapping

\* load_obs_info() has returned the mapping of the file the tests expect,
\* which the import had bound to obsInfo before
C15_Witness ==
    /\ entry = "load_obs_info"
    /\ pc = "done"
    /\ opened.doc = ObsParamsDoc
    /\ loaded.flight.foxsi4.launch_time.utc = PyStr("2024-04-17T22:13:00")
    /\ loaded.flight.foxsi4.launch_time.clock = PyInt(0)
    /\ obsInfo = loaded

(* ---------------------------------------------------------------------- *)
(* C16                                                                    *)
(* ---------------------------------------------------------------------- *)

Min(a, b) == IF a <= b THEN a ELSE b

\* r: the number of the first retry round of R that came back with an empty
\* failure list, n if no round did
FirstClean(R, n) ==
    IF \E i \in 1..Len(R) : R[i].out = "clean"
    THEN CHOOSE i \in 1..Len(R) :
            /\ R[i].out = "clean"
            /\ \A j \in 1..(i - 1) : R[j].out # "clean"
    ELSE n

StartList == IF given.none THEN <<>> ELSE given.list

\* C18: handle_retries called with tries = 0 issues no fetch call at all. It
\* returns the list it started from with the failure list of the result it
\* was given appended as one batch if that failure list is not empty, and
\* with nothing appended if it is empty.
C18_ZeroTriesFetchesNothing ==
    (entry = "direct" /\ tries = 0) =>
        /\ pc \in {"check", "done"}
        /\ Calls("retry") = <<>>
        /\ Calls("fetch") = <<>>
        /\ filepaths = GivenResult(firstErrors)
        /\ pc = "done" =>
              returned = IF firstErrors # <<>> THEN StartList \o << firstErrors >> ELSE StartList

\* handle_retries(filepaths, tries=0) has returned the two failures of the
\* result it was given as the one batch of a new list
C18_Witness ==
    /\ entry = "direct"
    /\ tries = 0
    /\ pc = "done"
    /\ given.none
    /\ firstErrors = <<E1, E2>>
    /\ returned = << <<E1, E2>> >>
    /\ log = << Event("append", idx, "needed_files", "returned") >>

(* ---------------------------------------------------------------------- *)
(* C19                                                                    *)
(* ---------------------------------------------------------------------- *)

\* C19: handle_retries given a list works on that list object: needed_files
\* is the caller's list throughout, the value returned is that object, and
\* when the call returns the caller's list holds the entries it held before,
\* in their order, followed by at most one new batch, the failure list left
\* after the retries.
C19_GivenListUpdatedInPlace ==
    (entry = "direct" /\ ~given.none) =>
        /\ nfRef = "caller"
        /\ needed_files = callerList
        /\ pc # "done" => callerList = given.list
        /\ pc = "done" =>
              /\ retRef = "caller"
              /\ returned = callerList
              /\ IsPrefix(given.list, callerList)
              /\ Len(callerList) <= Len(given.list) + 1
              /\ Len(callerList) = Len(given.list) + 1 =>
                    /\ callerList[Len(callerList)] = filepaths.errors
                    /\ filepaths.errors # <<>>

\* handle_retries was given a list of two batches and has returned it with a
\* third batch at its end, after retries that did not clear the failures
C19_Witness ==
    /\ entry = "direct"
    /\ pc = "done"
    /\ given = GivenList(<< <<E1, E2>>, <<E1>> >>)
    /\ retRef = "caller"
    /\ callerList = << <<E1, E2>>, <<E1>>, <<E1>> >>
    /\ returned = callerList
    /\ Len(Retries(idx)) = tries
    /\ tries = 2

(* ---------------------------------------------------------------------- *)
(* C20                                                                    *)
(* ---------------------------------------------------------------------- *)

====
